---- MODULE Spec2Model ----
(***************************************************************************)
(* State-machine model of GearBox<T> (src/src/Subsystems/GearBox.inl): a   *)
(* bank of up to three motors driven as one actuator, an optional          *)
(* encoder + PID controller pair, and an optional two-position shifter.    *)
(*                                                                         *)
(* Actuator commands are the float values of the program scaled by 100     *)
(* (50 is 0.5, 5 is 0.05); the scale keeps the order of a reading against  *)
(* the shift threshold: v < ShiftThreshold iff fabs(reading) < 0.12, so 12 *)
(* stands for the least reading that is not below 0.12.                    *)
(***************************************************************************)
EXTENDS Integers, Sequences, FiniteSets, TLC

VARIABLES cfg, m_havePID, m_pid, m_encoder, m_shifter, m_motors,
          m_isMotorReversed, m_isEncoderReversed, m_targetGear,
          lastOp, shifterWritten, nullDeref, crashed,
          teardown, writers, race, auton

vars == <<cfg, m_havePID, m_pid, m_encoder, m_shifter, m_motors,
          m_isMotorReversed, m_isEncoderReversed, m_targetGear,
          lastOp, shifterWritten, nullDeref, crashed,
          teardown, writers, race, auton>>

\* the destructor's record, the PIDWrite calls in progress and their
\* interference, and the autonomous routine with its two drive sides: each is
\* used by one of the specifications below and is constant in the others
aux == <<teardown, writers, race, auton>>

\* the objects of the GearBox itself
box == <<m_havePID, m_pid, m_encoder, m_shifter, m_motors,
         m_isMotorReversed, m_isEncoderReversed, m_targetGear>>

----------------------------------------------------------------------------
\* Program constants

\* `chan != -1`: the sentinel of an unassigned channel, written -1 in the source
Unassigned == -1

\* fabs( m_motors[i]->Get() ) < 0.12, in hundredths
ShiftThreshold == 12

\* m_pid->SetAbsoluteTolerance( 1 )
AbsoluteTolerance == 1

----------------------------------------------------------------------------
\* Bounds of the model

\* largest setpoint handed to setSetpoint
MaxSetpoint == 10

\* commands handed to setManual and computed by the controller (hundredths)
Cmd == {0, 5, ShiftThreshold, 50}

Setpoints == {0, MaxSetpoint}

\* (p, i, d) triples handed to setPID and f handed to setF
GainTriples == {<<1, 0, 0>>}
FeedForward == {0, 1}

DistancesPerPulse == {1, 2}
SourceParameters == {"kDistance", "kRate"}

\* channel identifiers handed to the constructor
ShifterChans == {Unassigned, 0}
EncAChans == {Unassigned, 1}
EncBChans == {Unassigned, 2}
\* (motor1, motor2, motor3): banks of zero to three motors
MotorChans == {<<Unassigned, Unassigned, Unassigned>>,
               <<3, Unassigned, Unassigned>>,
               <<Unassigned, 4, 5>>,
               <<3, 4, 5>>}

Abs(x) == IF x < 0 THEN -x ELSE x

\* the most recent step: the operation's name and its argument, a command
\* or a flag as 0/1 (0 for the operations whose argument is not recorded)
Op(name, arg) == [op |-> name, arg |-> arg]

Bit(b) == IF b THEN 1 ELSE 0

----------------------------------------------------------------------------
\* Collaborators that do not exist (nullptr) are records with present = FALSE

NoPid == [present |-> FALSE, enabled |-> FALSE, setpoint |-> 0,
          P |-> 0, I |-> 0, D |-> 0, F |-> 0, tolerance |-> 0]

NoEncoder == [present |-> FALSE, started |-> FALSE, source |-> "kDistance",
              distancePerPulse |-> 1, reverse |-> FALSE,
              distance |-> 0, rate |-> 0]

NoShifter == [present |-> FALSE, pos |-> FALSE]

\* new T( chan ): a motor controller starts at output 0
NewMotor(chan) == [chan |-> chan, value |-> 0]

\* the push_back calls of the constructor with the second one testing motor1
MotorBank_SecondTestsFirst(motor1, motor2, motor3) ==
    (IF motor1 # Unassigned THEN <<NewMotor(motor1)>> ELSE <<>>) \o
    (IF motor1 # Unassigned THEN <<NewMotor(motor2)>> ELSE <<>>) \o
    (IF motor3 # Unassigned THEN <<NewMotor(motor3)>> ELSE <<>>)

\* the three push_back calls of the constructor
MotorBank(motor1, motor2, motor3) ==
    (IF motor1 # Unassigned THEN <<NewMotor(motor1)>> ELSE <<>>) \o
    (IF motor2 # Unassigned THEN <<NewMotor(motor2)>> ELSE <<>>) \o
    (IF motor3 # Unassigned THEN <<NewMotor(motor3)>> ELSE <<>>)

\* GearBox<T>::GearBox creating the feedback path when either encoder
\* channel is assigned
GearBox_EitherChannel(shifterChan, encA, encB, motor1, motor2, motor3) ==
    LET have == encA # Unassigned \/ encB # Unassigned IN
    /\ cfg = [shifterChan |-> shifterChan, encA |-> encA, encB |-> encB,
              motor1 |-> motor1, motor2 |-> motor2, motor3 |-> motor3]
    /\ m_havePID = have
    /\ m_encoder = IF have
                   THEN [NoEncoder EXCEPT !.present = TRUE,
                                          !.source = "kDistance",
                                          !.started = TRUE]
                   ELSE NoEncoder
    /\ m_pid = IF have
               THEN [NoPid EXCEPT !.present = TRUE,
                                  !.tolerance = AbsoluteTolerance,
                                  !.enabled = TRUE]
               ELSE NoPid
    /\ m_shifter = IF shifterChan # Unassigned
                   THEN [present |-> TRUE, pos |-> FALSE]
                   ELSE NoShifter
    /\ m_isMotorReversed = FALSE
    /\ m_isEncoderReversed = FALSE
    /\ m_targetGear = FALSE
    /\ m_motors = MotorBank(motor1, motor2, motor3)

\* GearBox<T>::GearBox
GearBox(shifterChan, encA, encB, motor1, motor2, motor3) ==
    LET have == encA # Unassigned /\ encB # Unassigned IN
    /\ cfg = [shifterChan |-> shifterChan, encA |-> encA, encB |-> encB,
              motor1 |-> motor1, motor2 |-> motor2, motor3 |-> motor3]
    /\ m_havePID = have
    /\ m_encoder = IF have
                   THEN [NoEncoder EXCEPT !.present = TRUE,
                                          !.source = "kDistance",
                                          !.started = TRUE]
                   ELSE NoEncoder
    /\ m_pid = IF have
               THEN [NoPid EXCEPT !.present = TRUE,
                                  !.tolerance = AbsoluteTolerance,
                                  !.enabled = TRUE]
               ELSE NoPid
    /\ m_shifter = IF shifterChan # Unassigned
                   THEN [present |-> TRUE, pos |-> FALSE]
                   ELSE NoShifter
    /\ m_isMotorReversed = FALSE
    /\ m_isEncoderReversed = FALSE
    /\ m_targetGear = FALSE
    /\ m_motors = MotorBank(motor1, motor2, motor3)

\* no PIDWrite call in progress
Idle == [pc |-> "idle", out |-> 0, i |-> 0]

\* one side of the drive train as the autonomous routine sees it
SideInit == [enabled |-> TRUE, setpoint |-> 0, output |-> 0]

\* the object is alive, no PIDWrite is in progress, the routine is not running
AuxInit ==
    /\ teardown = [done |-> FALSE, log |-> <<>>]
    /\ writers = [caller |-> Idle, callback |-> Idle]
    /\ race = [interleaved |-> FALSE, torn |-> FALSE]
    /\ auton = [pc |-> "off", left |-> SideInit, right |-> SideInit]

Init ==
    /\ AuxInit
    /\ \E shifterChan \in ShifterChans, encA \in EncAChans, encB \in EncBChans,
          motors \in MotorChans :
          GearBox(shifterChan, encA, encB, motors[1], motors[2], motors[3])
    /\ lastOp = Op("GearBox", 0)
    /\ shifterWritten = FALSE
    /\ nullDeref = FALSE
    /\ crashed = FALSE

----------------------------------------------------------------------------
\* Output application and the shift interlock

\* the loop of PIDWrite stopping after the first motor
WriteMotors_FirstOnly(motors, reversed, output) ==
    [i \in 1..Len(motors) |->
        IF i = 1
        THEN [motors[i] EXCEPT !.value = IF ~reversed THEN output ELSE -output]
        ELSE motors[i]]

\* the loop of PIDWrite never negating the output
WriteMotors_IgnoreReversed(motors, reversed, output) ==
    [i \in 1..Len(motors) |-> [motors[i] EXCEPT !.value = output]]

\* the loop of PIDWrite: every motor receives output, or -output when reversed
WriteMotors(motors, reversed, output) ==
    [i \in 1..Len(motors) |->
        [motors[i] EXCEPT !.value = IF ~reversed THEN output ELSE -output]]

\* updateGear aborting when a motor is at or above the threshold
updateGear_AbortAtOrAbove(shifter, targetGear, motors) ==
    IF ~shifter.present \/ targetGear = shifter.pos
    THEN [shifter |-> shifter, written |-> FALSE]
    ELSE IF \E i \in 1..Len(motors) : Abs(motors[i].value) >= ShiftThreshold
         THEN [shifter |-> shifter, written |-> FALSE]
         ELSE [shifter |-> [shifter EXCEPT !.pos = targetGear],
               written |-> TRUE]

\* updateGear without the test that the shifter is already in place
updateGear_NoEqualityTest(shifter, targetGear, motors) ==
    IF ~shifter.present
    THEN [shifter |-> shifter, written |-> FALSE]
    ELSE IF \E i \in 1..Len(motors) : Abs(motors[i].value) < ShiftThreshold
         THEN [shifter |-> shifter, written |-> FALSE]
         ELSE [shifter |-> [shifter EXCEPT !.pos = targetGear],
               written |-> TRUE]

\* updateGear: the shifter after the call and whether Set was called on it
updateGear(shifter, targetGear, motors) ==
    IF ~shifter.present \/ targetGear = shifter.pos
    THEN [shifter |-> shifter, written |-> FALSE]
    ELSE IF \E i \in 1..Len(motors) : Abs(motors[i].value) < ShiftThreshold
         THEN [shifter |-> shifter, written |-> FALSE]
         ELSE [shifter |-> [shifter EXCEPT !.pos = targetGear],
               written |-> TRUE]

\* PIDWrite running updateGear before it writes the bank
PIDWrite_GearBeforeWrite(output) ==
    LET written == WriteMotors(m_motors, m_isMotorReversed, output)
        gear == updateGear(m_shifter, m_targetGear, m_motors)
    IN /\ m_motors' = written
       /\ m_shifter' = gear.shifter
       /\ shifterWritten' = gear.written

\* PIDWrite( output ): write the bank, then run updateGear
PIDWrite(output) ==
    LET written == WriteMotors(m_motors, m_isMotorReversed, output)
        gear == updateGear(m_shifter, m_targetGear, written)
    IN /\ m_motors' = written
       /\ m_shifter' = gear.shifter
       /\ shifterWritten' = gear.written

Caller(name, arg) ==
    /\ ~crashed
    /\ ~teardown.done
    /\ lastOp' = Op(name, arg)
    /\ UNCHANGED aux

----------------------------------------------------------------------------
\* Operations of the caller

setSetpoint(setpoint) ==
    /\ Caller("setSetpoint", 0)
    /\ m_pid' = IF m_havePID
                THEN [m_pid EXCEPT !.enabled = TRUE, !.setpoint = setpoint]
                ELSE m_pid
    /\ shifterWritten' = FALSE
    /\ UNCHANGED <<cfg, m_havePID, m_encoder, m_shifter, m_motors,
                   m_isMotorReversed, m_isEncoderReversed, m_targetGear,
                   nullDeref, crashed>>

\* setManual leaving the controller enabled
setManual_KeepEnabled(value) ==
    /\ Caller("setManual", value)
    /\ PIDWrite(value)
    /\ UNCHANGED <<cfg, m_havePID, m_pid, m_encoder,
                   m_isMotorReversed, m_isEncoderReversed, m_targetGear,
                   nullDeref, crashed>>

setManual(value) ==
    /\ Caller("setManual", value)
    /\ m_pid' = IF m_havePID /\ m_pid.enabled
                THEN [m_pid EXCEPT !.enabled = FALSE]
                ELSE m_pid
    /\ PIDWrite(value)
    /\ UNCHANGED <<cfg, m_havePID, m_encoder,
                   m_isMotorReversed, m_isEncoderReversed, m_targetGear,
                   nullDeref, crashed>>

\* the callback running whether or not the controller is enabled
PIDCallback_Unguarded(output) ==
    /\ ~crashed
    /\ m_pid.present
    /\ ~teardown.done
    /\ lastOp' = Op("PIDWrite", output)
    /\ PIDWrite(output)
    /\ UNCHANGED aux
    /\ UNCHANGED <<cfg, m_havePID, m_pid, m_encoder,
                   m_isMotorReversed, m_isEncoderReversed, m_targetGear,
                   nullDeref, crashed>>

\* the controller's periodic callback: it calls PIDWrite with its computed
\* command while it is enabled
PIDCallback(output) ==
    /\ ~crashed
    /\ m_pid.present /\ m_pid.enabled
    /\ ~teardown.done
    /\ lastOp' = Op("PIDWrite", output)
    /\ PIDWrite(output)
    /\ UNCHANGED aux
    /\ UNCHANGED <<cfg, m_havePID, m_pid, m_encoder,
                   m_isMotorReversed, m_isEncoderReversed, m_targetGear,
                   nullDeref, crashed>>

\* setGear writing the shifter at once
setGear_Immediate(gear) ==
    /\ Caller("setGear", Bit(gear))
    /\ m_targetGear' = IF m_shifter.present THEN gear ELSE m_targetGear
    /\ m_shifter' = IF m_shifter.present
                    THEN [m_shifter EXCEPT !.pos = gear]
                    ELSE m_shifter
    /\ shifterWritten' = FALSE
    /\ UNCHANGED <<cfg, m_havePID, m_pid, m_encoder, m_motors,
                   m_isMotorReversed, m_isEncoderReversed,
                   nullDeref, crashed>>

\* setGear without the test for a shifter
setGear_Unguarded(gear) ==
    /\ Caller("setGear", Bit(gear))
    /\ m_targetGear' = gear
    /\ shifterWritten' = FALSE
    /\ UNCHANGED <<cfg, m_havePID, m_pid, m_encoder, m_shifter, m_motors,
                   m_isMotorReversed, m_isEncoderReversed,
                   nullDeref, crashed>>

setGear(gear) ==
    /\ Caller("setGear", Bit(gear))
    /\ m_targetGear' = IF m_shifter.present THEN gear ELSE m_targetGear
    /\ shifterWritten' = FALSE
    /\ UNCHANGED <<cfg, m_havePID, m_pid, m_encoder, m_shifter, m_motors,
                   m_isMotorReversed, m_isEncoderReversed,
                   nullDeref, crashed>>

setMotorReversed(reverse) ==
    /\ Caller("setMotorReversed", 0)
    /\ m_isMotorReversed' = reverse
    /\ shifterWritten' = FALSE
    /\ UNCHANGED <<cfg, m_havePID, m_pid, m_encoder, m_shifter, m_motors,
                   m_isEncoderReversed, m_targetGear, nullDeref, crashed>>

\* the frame of an operation that only touches the controller or the encoder
Passthrough ==
    /\ shifterWritten' = FALSE
    /\ UNCHANGED <<cfg, m_havePID, m_shifter, m_motors, m_isMotorReversed,
                   m_isEncoderReversed, m_targetGear, nullDeref, crashed>>

setPID(p, i, d) ==
    /\ Caller("setPID", 0)
    /\ m_pid' = IF m_havePID
                THEN [m_pid EXCEPT !.P = p, !.I = i, !.D = d]
                ELSE m_pid
    /\ UNCHANGED m_encoder
    /\ Passthrough

\* setF handing zero gains to SetPID
setF_ResetsGains(f) ==
    /\ Caller("setF", 0)
    /\ m_pid' = IF m_havePID
                THEN [m_pid EXCEPT !.P = 0, !.I = 0, !.D = 0, !.F = f]
                ELSE m_pid
    /\ UNCHANGED m_encoder
    /\ Passthrough

\* m_pid->SetPID( GetP() , GetI() , GetD() , f )
setF(f) ==
    /\ Caller("setF", 0)
    /\ m_pid' = IF m_havePID
                THEN [m_pid EXCEPT !.P = m_pid.P, !.I = m_pid.I,
                                   !.D = m_pid.D, !.F = f]
                ELSE m_pid
    /\ UNCHANGED m_encoder
    /\ Passthrough

setDistancePerPulse(distancePerPulse) ==
    /\ Caller("setDistancePerPulse", 0)
    /\ m_encoder' = IF m_havePID
                    THEN [m_encoder EXCEPT !.distancePerPulse = distancePerPulse]
                    ELSE m_encoder
    /\ UNCHANGED m_pid
    /\ Passthrough

setPIDSourceParameter(pidSource) ==
    /\ Caller("setPIDSourceParameter", 0)
    /\ m_encoder' = IF m_havePID
                    THEN [m_encoder EXCEPT !.source = pidSource]
                    ELSE m_encoder
    /\ UNCHANGED m_pid
    /\ Passthrough

resetEncoder ==
    /\ Caller("resetEncoder", 0)
    /\ m_encoder' = IF m_havePID
                    THEN [m_encoder EXCEPT !.distance = 0]
                    ELSE m_encoder
    /\ UNCHANGED m_pid
    /\ Passthrough

\* the wheel turns: a started encoder accumulates distance and reads a rate
EncoderMove ==
    /\ ~crashed
    /\ m_encoder.present /\ m_encoder.started
    /\ m_encoder.distance = 0 \/ m_encoder.rate = 0
    /\ m_encoder' = [m_encoder EXCEPT !.distance = 1, !.rate = 1]
    /\ ~teardown.done
    /\ lastOp' = Op("EncoderMove", 0)
    /\ UNCHANGED aux
    /\ UNCHANGED m_pid
    /\ Passthrough

\* a call through a null m_pid or m_encoder is undefined: the program either
\* terminates there or carries on with the GearBox untouched
NullDereference ==
    /\ nullDeref' = TRUE
    /\ crashed' \in BOOLEAN
    /\ shifterWritten' = FALSE
    /\ UNCHANGED <<cfg, box>>

\* setEncoderReversed also storing the flag in m_isEncoderReversed
setEncoderReversed_CachesFlag(reverse) ==
    /\ Caller("setEncoderReversed", 0)
    /\ IF m_encoder.present
       THEN /\ m_encoder' = [m_encoder EXCEPT !.reverse = reverse]
            /\ m_isEncoderReversed' = reverse
            /\ shifterWritten' = FALSE
            /\ UNCHANGED <<cfg, m_havePID, m_pid, m_shifter, m_motors,
                           m_isMotorReversed, m_targetGear, nullDeref, crashed>>
       ELSE NullDereference

\* m_encoder->SetReverseDirection( reverse ), unguarded
setEncoderReversed(reverse) ==
    /\ Caller("setEncoderReversed", 0)
    /\ IF m_encoder.present
       THEN /\ m_encoder' = [m_encoder EXCEPT !.reverse = reverse]
            /\ shifterWritten' = FALSE
            /\ UNCHANGED <<cfg, m_havePID, m_pid, m_shifter, m_motors,
                           m_isMotorReversed, m_isEncoderReversed,
                           m_targetGear, nullDeref, crashed>>
       ELSE NullDereference

\* resetPID stopping after m_pid->Reset(), which leaves the loop disabled
resetPID_NoEnable ==
    /\ Caller("resetPID", 0)
    /\ IF m_pid.present
       THEN /\ m_pid' = [m_pid EXCEPT !.enabled = FALSE]
            /\ shifterWritten' = FALSE
            /\ UNCHANGED <<cfg, m_havePID, m_encoder, m_shifter, m_motors,
                           m_isMotorReversed, m_isEncoderReversed,
                           m_targetGear, nullDeref, crashed>>
       ELSE NullDereference

\* m_pid->Reset(); m_pid->Enable(), unguarded
resetPID ==
    /\ Caller("resetPID", 0)
    /\ IF m_pid.present
       THEN /\ m_pid' = [m_pid EXCEPT !.enabled = TRUE]
            /\ shifterWritten' = FALSE
            /\ UNCHANGED <<cfg, m_havePID, m_encoder, m_shifter, m_motors,
                           m_isMotorReversed, m_isEncoderReversed,
                           m_targetGear, nullDeref, crashed>>
       ELSE NullDereference

----------------------------------------------------------------------------
\* Queries (const member functions)

getSetpoint == IF m_havePID THEN m_pid.setpoint ELSE 0

\* getManual without the sign correction
getManual_Raw == m_motors[1].value

\* reads m_motors[0]; meaningful when the bank is not empty
getManual == IF ~m_isMotorReversed THEN m_motors[1].value
                                   ELSE -m_motors[1].value

getDistance == IF m_havePID THEN m_encoder.distance ELSE 0

getRate == IF m_havePID THEN m_encoder.rate ELSE 0

isMotorReversed == m_isMotorReversed

isEncoderReversed == m_isEncoderReversed

getGear == IF m_shifter.present THEN m_shifter.pos ELSE FALSE

\* the quantity the controller reads from the encoder
PIDGet == IF m_encoder.source = "kDistance" THEN m_encoder.distance
                                            ELSE m_encoder.rate

onTarget == IF m_havePID
            THEN Abs(m_pid.setpoint - PIDGet) < m_pid.tolerance
            ELSE FALSE

\* a call of getManual: m_motors[0] of an empty bank is an access outside the
\* vector, undefined like the call through a null pointer
getManualCall ==
    /\ Caller("getManual", 0)
    /\ IF Len(m_motors) >= 1
       THEN /\ shifterWritten' = FALSE
            /\ UNCHANGED <<cfg, box, nullDeref, crashed>>
       ELSE NullDereference

Next ==
    \/ \E v \in Setpoints : setSetpoint(v)
    \/ \E v \in Cmd : setManual(v)
    \/ \E v \in Cmd : PIDCallback(v)
    \/ \E g \in BOOLEAN : setGear(g)
    \/ \E r \in BOOLEAN : setMotorReversed(r)
    \/ \E g \in GainTriples : setPID(g[1], g[2], g[3])
    \/ \E f \in FeedForward : setF(f)
    \/ \E d \in DistancesPerPulse : setDistancePerPulse(d)
    \/ \E s \in SourceParameters : setPIDSourceParameter(s)
    \/ resetEncoder
    \/ EncoderMove
    \/ \E r \in BOOLEAN : setEncoderReversed(r)
    \/ resetPID

Spec == Init /\ [][Next]_vars

----------------------------------------------------------------------------
\* Construction and teardown, over every combination of the six channels

Motor1Chans == {Unassigned, 3}
Motor2Chans == {Unassigned, 4}
Motor3Chans == {Unassigned, 5}

InitLifecycle ==
    /\ AuxInit
    /\ \E shifterChan \in ShifterChans, encA \in EncAChans, encB \in EncBChans,
          motor1 \in Motor1Chans, motor2 \in Motor2Chans,
          motor3 \in Motor3Chans :
          GearBox(shifterChan, encA, encB, motor1, motor2, motor3)
    /\ lastOp = Op("GearBox", 0)
    /\ shifterWritten = FALSE
    /\ nullDeref = FALSE
    /\ crashed = FALSE

\* a call the destructor makes on an owned object
Release(act, obj, chan) == [act |-> act, obj |-> obj, chan |-> chan]

\* the loop of the destructor over m_motors
DeleteMotors(motors) ==
    [i \in 1..Len(motors) |-> Release("delete", "motor", motors[i].chan)]

\* the calls of the destructor, in the order it makes them
DestructorCalls_StopAfterDelete ==
    (IF m_havePID
     THEN <<Release("delete", "m_pid", Unassigned),
            Release("delete", "m_encoder", Unassigned),
            Release("Stop", "m_encoder", Unassigned)>>
     ELSE <<>>) \o
    (IF m_shifter.present
     THEN <<Release("delete", "m_shifter", Unassigned)>>
     ELSE <<>>) \o
    DeleteMotors(m_motors)

DestructorCalls ==
    (IF m_havePID
     THEN <<Release("delete", "m_pid", Unassigned),
            Release("Stop", "m_encoder", Unassigned),
            Release("delete", "m_encoder", Unassigned)>>
     ELSE <<>>) \o
    (IF m_shifter.present
     THEN <<Release("delete", "m_shifter", Unassigned)>>
     ELSE <<>>) \o
    DeleteMotors(m_motors)

\* GearBox<T>::~GearBox
Destructor ==
    /\ ~crashed
    /\ ~teardown.done
    /\ teardown' = [done |-> TRUE, log |-> DestructorCalls]
    /\ m_motors' = <<>>
    /\ lastOp' = Op("~GearBox", 0)
    /\ shifterWritten' = FALSE
    /\ UNCHANGED <<cfg, m_havePID, m_pid, m_encoder, m_shifter,
                   m_isMotorReversed, m_isEncoderReversed, m_targetGear,
                   nullDeref, crashed, writers, race, auton>>

NextLifecycle ==
    \/ \E v \in Cmd : setManual(v)
    \/ \E v \in Setpoints : setSetpoint(v)
    \/ \E g \in BOOLEAN : setGear(g)
    \/ getManualCall
    \/ Destructor

SpecLifecycle == InitLifecycle /\ [][NextLifecycle]_vars

----------------------------------------------------------------------------
\* PIDWrite without a lock: the caller's setManual and the controller's
\* callback each run PIDWrite one motor write at a time, and the two calls
\* may overlap; motorReversed is changed between calls only

Writers == {"caller", "callback"}

OtherWriter(t) == IF t = "caller" THEN "callback" ELSE "caller"

InitUnserialized == Init

\* entering PIDWrite( output ) on thread t; the call overlaps the other
\* thread's when that thread is inside PIDWrite at this moment, and it
\* starts a fresh record of interference when no call is running
EnterPIDWrite(t, output) ==
    /\ writers[t].pc = "idle"
    /\ writers' = [writers EXCEPT ![t] = [pc |-> "write", out |-> output,
                                          i |-> 1]]
    /\ race' = IF writers[OtherWriter(t)].pc # "idle"
                THEN [race EXCEPT !.interleaved = TRUE]
                ELSE [interleaved |-> FALSE, torn |-> FALSE]
    /\ shifterWritten' = FALSE

\* setManual up to its call of PIDWrite
BeginSetManual(value) ==
    /\ ~crashed /\ ~teardown.done
    /\ m_pid' = IF m_havePID /\ m_pid.enabled
                THEN [m_pid EXCEPT !.enabled = FALSE]
                ELSE m_pid
    /\ EnterPIDWrite("caller", value)
    /\ lastOp' = Op("setManual", value)
    /\ UNCHANGED <<cfg, m_havePID, m_encoder, m_shifter, m_motors,
                   m_isMotorReversed, m_isEncoderReversed, m_targetGear,
                   nullDeref, crashed, teardown, auton>>

\* the controller, enabled, calls PIDWrite with its computed command
BeginCallback(output) ==
    /\ ~crashed /\ ~teardown.done
    /\ m_pid.present /\ m_pid.enabled
    /\ EnterPIDWrite("callback", output)
    /\ lastOp' = Op("PIDWrite", output)
    /\ UNCHANGED <<cfg, m_havePID, m_pid, m_encoder, m_shifter, m_motors,
                   m_isMotorReversed, m_isEncoderReversed, m_targetGear,
                   nullDeref, crashed, teardown, auton>>

\* m_motors[i]->Set always reaching the first motor
SetMotor_AlwaysFirst(motors, i, reversed, output) ==
    [motors EXCEPT ![1].value = IF ~reversed THEN output ELSE -output]

\* m_motors[i]->Set( output ) or Set( -output )
SetMotor(motors, i, reversed, output) ==
    [motors EXCEPT ![i].value = IF ~reversed THEN output ELSE -output]

\* one turn of the loop of PIDWrite on thread t: a motor write, or the exit
\* of the loop towards updateGear
WriteStep(t) ==
    /\ writers[t].pc = "write"
    /\ IF writers[t].i <= Len(m_motors)
       THEN /\ m_motors' = SetMotor(m_motors, writers[t].i,
                                    m_isMotorReversed, writers[t].out)
            /\ writers' = [writers EXCEPT ![t].i = @ + 1]
       ELSE /\ m_motors' = m_motors
            /\ writers' = [writers EXCEPT ![t].pc = "gear"]
    /\ UNCHANGED <<cfg, m_havePID, m_pid, m_encoder, m_shifter,
                   m_isMotorReversed, m_isEncoderReversed, m_targetGear,
                   lastOp, shifterWritten, nullDeref, crashed,
                   teardown, race, auton>>

\* the motors of the bank do not all hold the same value
Mixed(motors) ==
    \E i, j \in 1..Len(motors) : motors[i].value # motors[j].value

\* updateGear at the end of PIDWrite on thread t; it decides on the bank as
\* it is now, which is torn when the bank is mixed
GearStep(t) ==
    LET gear == updateGear(m_shifter, m_targetGear, m_motors) IN
    /\ writers[t].pc = "gear"
    /\ m_shifter' = gear.shifter
    /\ shifterWritten' = gear.written
    /\ race' = [race EXCEPT !.torn =
                    \/ @
                    \/ /\ m_shifter.present
                       /\ m_targetGear # m_shifter.pos
                       /\ Mixed(m_motors)]
    /\ writers' = [writers EXCEPT ![t] = Idle]
    /\ UNCHANGED <<cfg, m_havePID, m_pid, m_encoder, m_motors,
                   m_isMotorReversed, m_isEncoderReversed, m_targetGear,
                   lastOp, nullDeref, crashed, teardown, auton>>

\* the caller issues its operations one after the other
CallerIdle == writers.caller.pc = "idle"

NoPIDWriteRunning ==
    writers.caller.pc = "idle" /\ writers.callback.pc = "idle"

NextUnserialized ==
    \/ \E v \in Cmd : BeginSetManual(v)
    \/ \E v \in Cmd : BeginCallback(v)
    \/ \E t \in Writers : WriteStep(t)
    \/ \E t \in Writers : GearStep(t)
    \/ \E v \in Setpoints : CallerIdle /\ setSetpoint(v)
    \/ \E g \in BOOLEAN : CallerIdle /\ setGear(g)
    \/ \E r \in BOOLEAN : NoPIDWriteRunning /\ setMotorReversed(r)

SpecUnserialized == InitUnserialized /\ [][NextUnserialized]_vars

----------------------------------------------------------------------------
\* Robot::AutoMotionProfile driving the two sides of the drive train; each
\* side is a gear box with a feedback path, seen through its controller's
\* enabled flag and setpoint and through the output its motors hold

SideStates == [enabled : BOOLEAN, setpoint : Setpoints, output : Cmd]

\* GearBox<T>::setManual on a side: disable the controller, write the output
SideSetManual(side, value) ==
    [side EXCEPT !.enabled = FALSE, !.output = value]

\* GearBox<T>::setSetpoint on a side: enable the controller, set the target
SideSetSetpoint(side, setpoint) ==
    [side EXCEPT !.enabled = TRUE, !.setpoint = setpoint]

\* DriveTrain::setLeftManual and its siblings hand the command to the gear
\* box of that side
setLeftManual(value) ==
    [auton EXCEPT !.left = SideSetManual(@, value)]

setRightManual(value) ==
    [auton EXCEPT !.right = SideSetManual(@, value)]

setLeftSetpoint(setpoint) ==
    [auton EXCEPT !.left = SideSetSetpoint(@, setpoint)]

setRightSetpoint(setpoint) ==
    [auton EXCEPT !.right = SideSetSetpoint(@, setpoint)]

\* the routine starts with the sides in any state the robot left them in
InitAuto ==
    /\ teardown = [done |-> FALSE, log |-> <<>>]
    /\ writers = [caller |-> Idle, callback |-> Idle]
    /\ race = [interleaved |-> FALSE, torn |-> FALSE]
    /\ \E l \in SideStates, r \in SideStates :
          auton = [pc |-> "L10", left |-> l, right |-> r]
    /\ GearBox(Unassigned, 1, 2, 3, 4, 5)
    /\ lastOp = Op("AutoMotionProfile", 0)
    /\ shifterWritten = FALSE
    /\ nullDeref = FALSE
    /\ crashed = FALSE

\* a step of the routine leaves the model's single gear box alone
AutoFrame ==
    UNCHANGED <<cfg, box, shifterWritten, nullDeref, crashed,
                teardown, writers, race>>

\* a statement of the routine that commands a side, from pc to next
Command(pc, next, name, arg, after) ==
    /\ auton.pc = pc
    /\ auton' = [after EXCEPT !.pc = next]
    /\ lastOp' = Op(name, arg)
    /\ AutoFrame

\* lines 10-11
AutoZeroManual ==
    \/ Command("L10", "L11", "setLeftManual", 0, setLeftManual(0))
    \/ Command("L11", "L12", "setRightManual", 0, setRightManual(0))

\* lines 12-13
AutoZeroSetpoint ==
    \/ Command("L12", "L13", "setLeftSetpoint", 0, setLeftSetpoint(0))
    \/ Command("L13", "L14", "setRightSetpoint", 0, setRightSetpoint(0))

\* lines 14-29: profile, control mode, encoders, timer and goal
AutoSetup ==
    /\ auton.pc = "L14"
    /\ auton' = [auton EXCEPT !.pc = "L30"]
    /\ UNCHANGED lastOp
    /\ AutoFrame

\* line 30: IsAutonomous() && IsEnabled() && !atGoal()
AutoTrackTest ==
    /\ auton.pc = "L30"
    /\ \E continue \in BOOLEAN :
          auton' = [auton EXCEPT !.pc = IF continue THEN "L34" ELSE "L43"]
    /\ UNCHANGED lastOp
    /\ AutoFrame

\* lines 31-35
AutoTrackLeft ==
    \E v \in Setpoints :
        Command("L34", "L36", "setLeftSetpoint", v, setLeftSetpoint(v))

\* lines 36-39, back to the test of the loop
AutoTrackRight ==
    \E v \in Setpoints :
        Command("L36", "L30", "setRightSetpoint", v, setRightSetpoint(v))

\* line 43 written once more in the place of line 44
AutoStopRight_StopsLeft ==
    Command("L44", "L46", "setRightManual", 0, setLeftManual(0))

\* line 43
AutoStopLeft ==
    Command("L43", "L44", "setLeftManual", 0, setLeftManual(0))

\* line 44
AutoStopRight ==
    Command("L44", "L46", "setRightManual", 0, setRightManual(0))

\* lines 46-49: the idle loop, left when autonomous ends or the robot is
\* disabled
AutoIdle ==
    /\ auton.pc = "L46"
    /\ auton' = [auton EXCEPT !.pc = "done"]
    /\ UNCHANGED lastOp
    /\ AutoFrame

\* the controller of a side, enabled, writes its computed output
SideCallback ==
    /\ auton.pc # "off"
    /\ \E v \in Cmd :
          \/ /\ auton.left.enabled
             /\ auton' = [auton EXCEPT !.left.output = v]
          \/ /\ auton.right.enabled
             /\ auton' = [auton EXCEPT !.right.output = v]
    /\ UNCHANGED lastOp
    /\ AutoFrame

NextAuto ==
    \/ AutoZeroManual
    \/ AutoZeroSetpoint
    \/ AutoSetup
    \/ AutoTrackTest
    \/ AutoTrackLeft
    \/ AutoTrackRight
    \/ AutoStopLeft
    \/ AutoStopRight
    \/ AutoIdle
    \/ SideCallback

SpecAuto == InitAuto /\ [][NextAuto]_vars

----------------------------------------------------------------------------
\* Properties

\* steps that apply an output: PIDWrite reached from setManual or from the
\* controller's callback
OutputOps == {"setManual", "PIDWrite"}

\* operations that change the control mode
ModeOps == {"setManual", "setSetpoint", "resetPID"}

\* guarded delegations to the controller and the encoder
FeedbackOps == {"setSetpoint", "setPID", "setF", "setDistancePerPulse",
                "setPIDSourceParameter", "resetEncoder"}

AllBelowThreshold ==
    \A i \in 1..Len(m_motors) : Abs(m_motors[i].value) < ShiftThreshold

AllAtOrAboveThreshold ==
    \A i \in 1..Len(m_motors) : Abs(m_motors[i].value) >= ShiftThreshold

AllMotorsHold(v) == \A i \in 1..Len(m_motors) : m_motors[i].value = v

PendingShift ==
    /\ m_shifter.present
    /\ Len(m_motors) = 1
    /\ m_targetGear
    /\ ~m_shifter.pos

C3_ModeExclusivity ==
    /\ [](m_havePID /\ lastOp.op = "setManual" => ~m_pid.enabled)
    /\ [](m_havePID /\ lastOp.op = "setSetpoint" => m_pid.enabled)
    /\ [](~m_havePID => ~m_pid.present /\ ~m_pid.enabled)
    /\ [][m_havePID /\ ~m_pid.enabled /\ m_pid'.enabled =>
             lastOp'.op \in {"setSetpoint", "resetPID"}]_vars

C3_Witness ==
    /\ m_havePID
    /\ lastOp.op = "setManual"
    /\ m_pid.setpoint = MaxSetpoint
    /\ ~m_pid.enabled

\* C4: with a feedback path, after setManual(0) the controller is disabled
\* and every actuator holds 0, and while the controller is disabled no step
\* other than setManual, setSetpoint or resetPID (the controller's callback
\* included) changes an actuator or enables the controller
C4_ManualWins ==
    /\ [](m_havePID /\ lastOp = Op("setManual", 0) =>
             ~m_pid.enabled /\ AllMotorsHold(0))
    /\ [][m_havePID /\ ~m_pid.enabled /\ lastOp'.op \notin ModeOps =>
             m_motors' = m_motors /\ ~m_pid'.enabled]_vars

C4_Witness ==
    /\ m_havePID
    /\ m_pid.P = 1
    /\ m_pid.setpoint = MaxSetpoint
    /\ Len(m_motors) >= 1
    /\ lastOp = Op("setManual", 0)
    /\ ~m_pid.enabled
    /\ AllMotorsHold(0)

FeedbackUnavailable == cfg.encA = Unassigned \/ cfg.encB = Unassigned

\* C5: when encA or encB is unassigned, setSetpoint, setPID, setF,
\* setDistancePerPulse, setPIDSourceParameter and resetEncoder change
\* nothing of the box, getSetpoint, getDistance and getRate are 0 and
\* onTarget is false
C5_FeedbackUnavailableDefaults ==
    /\ [](FeedbackUnavailable =>
             /\ getSetpoint = 0
             /\ getDistance = 0
             /\ getRate = 0
             /\ ~onTarget)
    /\ [][FeedbackUnavailable /\ lastOp'.op \in FeedbackOps =>
             UNCHANGED box /\ ~shifterWritten']_vars

C5_Witness ==
    /\ cfg.encA # Unassigned
    /\ cfg.encB = Unassigned
    /\ lastOp.op = "setSetpoint"
    /\ Len(m_motors) = 2
    /\ AllMotorsHold(50)

\* C6: without a sensor/controller pair, resetPID and setEncoderReversed
\* complete normally and never touch the absent controller or sensor
C6_NeverFatal ==
    ~m_havePID /\ lastOp.op \in {"resetPID", "setEncoderReversed"} =>
        ~nullDeref /\ ~crashed

\* C7: without a shifter channel targetGear stays false, getGear is false
\* and updateGear never writes a shifter
C7_NoShifter ==
    cfg.shifterChan = Unassigned =>
        /\ ~m_targetGear
        /\ getGear = FALSE
        /\ ~shifterWritten
        /\ m_shifter = NoShifter

C7_Witness ==
    /\ cfg.shifterChan = Unassigned
    /\ lastOp = Op("setGear", Bit(TRUE))
    /\ Len(m_motors) >= 1
    /\ AllMotorsHold(50)

\* C8: an output application performed while targetGear equals the
\* shifter's position writes no shifter, whatever the output
C8_NoSpuriousActuation ==
    [][/\ lastOp'.op \in OutputOps
       /\ m_shifter.present
       /\ m_targetGear = m_shifter.pos
       => ~shifterWritten' /\ m_shifter' = m_shifter]_vars

C8_Witness ==
    /\ m_shifter.present
    /\ m_targetGear /\ m_shifter.pos
    /\ lastOp = Op("PIDWrite", 50)
    /\ Len(m_motors) = 3
    /\ ~shifterWritten

\* C9: after every output application all actuators hold the same value,
\* output when motorReversed is false and -output when it is true
C9_BulkApplication ==
    lastOp.op \in OutputOps =>
        AllMotorsHold(IF m_isMotorReversed THEN -lastOp.arg ELSE lastOp.arg)

C9_Witness ==
    /\ cfg.shifterChan = Unassigned
    /\ ~m_havePID
    /\ Len(m_motors) = 2
    /\ lastOp = Op("setManual", 50)
    /\ m_motors[1].value = 50 /\ m_motors[2].value = 50

\* C10 as stated: with a motor and motorReversed set, getManual reports the
\* negated value of the most recent setManual command and the actuators
\* hold the negated command
C10_ReportsNegated ==
    Len(m_motors) >= 1 /\ m_isMotorReversed /\ lastOp.op = "setManual" =>
        getManual = -lastOp.arg /\ AllMotorsHold(-lastOp.arg)

\* C10 amended: with a motor, when setMotorReversed(true) precedes
\* setManual(v) the actuators hold -v and getManual reports v; when it
\* follows setManual(v) the actuators keep v and getManual reports -v
C10_Orientation ==
    /\ [](Len(m_motors) >= 1 /\ m_isMotorReversed /\ lastOp.op = "setManual"
             => AllMotorsHold(-lastOp.arg) /\ getManual = lastOp.arg)
    /\ [][/\ Len(m_motors) >= 1
          /\ lastOp.op = "setManual" /\ ~m_isMotorReversed
          /\ lastOp'.op = "setMotorReversed" /\ m_isMotorReversed'
          => m_motors' = m_motors /\ getManual' = -lastOp.arg]_vars

C10_Witness ==
    /\ Len(m_motors) >= 1
    /\ m_isMotorReversed
    /\ lastOp = Op("setManual", 50)
    /\ m_motors[1].value = -50

Assigned(chan) == chan # Unassigned

\* C11: on return from the constructor the encoder and the controller are
\* both present iff encA and encB are both assigned, the shifter is present
\* iff shifterChan is assigned, the bank holds one actuator per assigned
\* motor channel in the order motor1, motor2, motor3, motorReversed and
\* targetGear are false and a controller that exists is enabled; the
\* encoder and the controller are never one without the other
C11_Construction ==
    /\ m_encoder.present <=> m_pid.present
    /\ lastOp.op = "GearBox" =>
          /\ m_pid.present <=> (Assigned(cfg.encA) /\ Assigned(cfg.encB))
          /\ m_havePID <=> m_pid.present
          /\ m_shifter.present <=> Assigned(cfg.shifterChan)
          /\ [i \in 1..Len(m_motors) |-> m_motors[i].chan] =
                SelectSeq(<<cfg.motor1, cfg.motor2, cfg.motor3>>, Assigned)
          /\ ~m_isMotorReversed
          /\ ~m_targetGear
          /\ m_pid.present => m_pid.enabled

C11_Witness ==
    /\ lastOp.op = "GearBox"
    /\ Assigned(cfg.encA) /\ ~Assigned(cfg.encB)
    /\ ~Assigned(cfg.motor1) /\ Assigned(cfg.motor2) /\ ~Assigned(cfg.motor3)
    /\ Len(m_motors) = 1
    /\ ~m_pid.present

\* the releases the configuration calls for: controller, sensor stopped and
\* then released, shifter, then the actuators in bank order
ExpectedTeardown ==
    (IF Assigned(cfg.encA) /\ Assigned(cfg.encB)
     THEN <<Release("delete", "m_pid", Unassigned),
            Release("Stop", "m_encoder", Unassigned),
            Release("delete", "m_encoder", Unassigned)>>
     ELSE <<>>) \o
    (IF Assigned(cfg.shifterChan)
     THEN <<Release("delete", "m_shifter", Unassigned)>>
     ELSE <<>>) \o
    [i \in 1..Len(SelectSeq(<<cfg.motor1, cfg.motor2, cfg.motor3>>, Assigned)) |->
        Release("delete", "motor",
                SelectSeq(<<cfg.motor1, cfg.motor2, cfg.motor3>>, Assigned)[i])]

\* no object is deleted twice and none is used after it was deleted
NoDoubleRelease(log) ==
    \A i, j \in 1..Len(log) :
        /\ log[i].act = "delete"
        /\ i < j
        => log[j].obj # log[i].obj \/ log[j].chan # log[i].chan

\* C12: the destructor releases every owned resource exactly once, in the
\* order controller, sensor (stopped before it is released), shifter,
\* actuators, and touches nothing that is absent or already released
C12_Teardown ==
    teardown.done =>
        /\ teardown.log = ExpectedTeardown
        /\ NoDoubleRelease(teardown.log)
        /\ m_motors = <<>>

C12_Witness ==
    /\ teardown.done
    /\ Assigned(cfg.encA) /\ Assigned(cfg.encB)
    /\ ~Assigned(cfg.shifterChan)
    /\ Assigned(cfg.motor1) /\ ~Assigned(cfg.motor2) /\ Assigned(cfg.motor3)
    /\ Len(teardown.log) = 5

\* C13: an actuator changes only in a step that runs PIDWrite, the shifter
\* is written only there, and each such step writes the shifter exactly
\* when the interlock, evaluated on the values just written, lets the
\* pending shift through
C13_SingleChokePoint ==
    [][/\ (m_motors' # m_motors => lastOp'.op \in OutputOps)
       /\ (shifterWritten' \/ m_shifter' # m_shifter =>
              lastOp'.op \in OutputOps)
       /\ (lastOp'.op \in OutputOps =>
              /\ shifterWritten' <=>
                    /\ m_shifter.present
                    /\ m_targetGear # m_shifter.pos
                    /\ \A i \in 1..Len(m_motors') :
                          Abs(m_motors'[i].value) >= ShiftThreshold
              /\ m_shifter'.pos = IF shifterWritten' THEN m_targetGear
                                                     ELSE m_shifter.pos)]_vars

C13_Witness ==
    /\ lastOp = Op("PIDWrite", ShiftThreshold)
    /\ Len(m_motors) = 2
    /\ shifterWritten
    /\ ~m_shifter.pos

\* C14: with a feedback path the controller is enabled right after
\* resetPID, whatever it was before, so the controller's callback can run
C14_ResetReenables ==
    [][m_havePID /\ lastOp'.op = "resetPID" =>
          /\ m_pid'.enabled
          /\ m_pid'.present /\ ~crashed' /\ ~teardown'.done]_vars

C14_Witness ==
    /\ m_havePID
    /\ lastOp.op = "resetPID"
    /\ m_pid.enabled
    /\ Len(m_motors) >= 1
    /\ AllMotorsHold(0)
    /\ m_pid.setpoint = 0

\* C15: with a feedback path setF changes the feed-forward gain only, and
\* setPID sets P, I and D together and changes nothing else; neither
\* touches the setpoint, the enabled flag, the actuators or the gear state
C15_GainFrames ==
    [][/\ (m_havePID /\ lastOp'.op = "setF" =>
              /\ m_pid'.F \in FeedForward
              /\ m_pid' = [m_pid EXCEPT !.F = m_pid'.F]
              /\ UNCHANGED <<m_encoder, m_shifter, m_motors, m_targetGear,
                             m_isMotorReversed, m_isEncoderReversed>>)
       /\ (m_havePID /\ lastOp'.op = "setPID" =>
              /\ <<m_pid'.P, m_pid'.I, m_pid'.D>> \in GainTriples
              /\ m_pid' = [m_pid EXCEPT !.P = m_pid'.P, !.I = m_pid'.I,
                                        !.D = m_pid'.D]
              /\ UNCHANGED <<m_encoder, m_shifter, m_motors, m_targetGear,
                             m_isMotorReversed, m_isEncoderReversed>>)]_vars

C15_Witness ==
    /\ m_havePID
    /\ lastOp.op = "setF"
    /\ m_pid.P = 1
    /\ m_pid.F = 1
    /\ m_pid.setpoint = MaxSetpoint

\* C16: setEncoderReversed sets the sensor's direction flag only, so
\* isEncoderReversed is false in every state
C16_EncoderFlagNeverSet == isEncoderReversed = FALSE

C16_Witness ==
    /\ m_havePID
    /\ lastOp.op = "setEncoderReversed"
    /\ m_encoder.reverse
    /\ ~isEncoderReversed

\* C17: with a motor, getManual right after setManual(v) is v, whether
\* motorReversed is set or not
C17_ManualRoundTrip ==
    Len(m_motors) >= 1 /\ lastOp.op = "setManual" => getManual = lastOp.arg

C17_Witness ==
    /\ Len(m_motors) = 3
    /\ m_isMotorReversed
    /\ lastOp = Op("setManual", 5)
    /\ getManual = 5

\* C18: whenever getManual is called, index 0 is within the bank
C18_GetManualInBounds == lastOp.op = "getManual" => Len(m_motors) >= 1

\* C19 as stated: with the two PIDWrite calls interleaved motor write by
\* motor write, once both have completed all actuators hold the same value
\* and no updateGear decision is taken on a mixed bank
C19_NoTornOutput ==
    /\ NoPIDWriteRunning => ~Mixed(m_motors)
    /\ ~race.torn

\* C19 amended: since the last moment no PIDWrite was running, once the
\* calls have completed all actuators hold the same value, and every
\* updateGear decision was taken on a uniform bank, unless two PIDWrite
\* calls have overlapped (motorReversed not changing during a call)
C19_UniformUnlessOverlapped ==
    /\ NoPIDWriteRunning /\ ~race.interleaved => ~Mixed(m_motors)
    /\ race.torn => race.interleaved

C19_Witness ==
    /\ NoPIDWriteRunning
    /\ ~race.interleaved
    /\ Len(m_motors) = 3
    /\ m_isMotorReversed
    /\ lastOp = Op("setManual", 50)
    /\ AllMotorsHold(-50)
    /\ ~m_pid.enabled /\ m_pid.present
    /\ m_shifter.pos

TrackingLoop == {"L30", "L34", "L36"}

IdleLoop == {"L46", "done"}

SideStopped(side) == ~side.enabled /\ side.output = 0

\* C20: the routine first leaves both sides in manual mode at 0 and then in
\* closed loop at setpoint 0, issues only setpoint commands while the
\* tracking loop runs, has both sides in manual mode with output 0 whenever
\* it is in or past the idle loop, its last command being setRightManual(0),
\* and issues no command from there on
C20_AutonomousOrdering ==
    /\ [](auton.pc = "L12" =>
             SideStopped(auton.left) /\ SideStopped(auton.right))
    /\ [](auton.pc = "L14" =>
             /\ auton.left.enabled /\ auton.left.setpoint = 0
             /\ auton.right.enabled /\ auton.right.setpoint = 0)
    /\ [][auton.pc \in TrackingLoop /\ auton'.pc \in TrackingLoop
             /\ lastOp' # lastOp =>
             lastOp'.op \in {"setLeftSetpoint", "setRightSetpoint"}]_vars
    /\ [](auton.pc \in IdleLoop =>
             /\ SideStopped(auton.left) /\ SideStopped(auton.right)
             /\ lastOp = Op("setRightManual", 0))
    /\ [][auton.pc \in IdleLoop => lastOp' = lastOp]_vars

C20_Witness ==
    /\ auton.pc = "L46"
    /\ auton.left.setpoint = MaxSetpoint
    /\ auton.right.setpoint = MaxSetpoint
    /\ SideStopped(auton.left) /\ SideStopped(auton.right)

====
